---- MODULE Spec2Model ----
(***************************************************************************)
(* Model of tools/process-codelab-source-file.py: the script that strips   *)
(* codelab sections from a source file in place.                           *)
(*                                                                         *)
(* A line's text is a sequence of tokens.  "P" stands for the characters   *)
(* "// CODELAB" that both markers begin with, ":" for ": ", "E" for        *)
(* " SECTION END" and "x" for any other text, so that the start marker is  *)
(* <<"P", ":">>, the end marker is <<"P", "E">>, and `pattern in line` is  *)
(* contiguous-subsequence containment.                                     *)
(*                                                                         *)
(* A file on disk is a sequence of raw lines, each with its own            *)
(* terminator ("LF", "CRLF", "CR", or "NONE" for a last line without one). *)
(* The script opens the file in text mode with the default newline         *)
(* handling: on reading every terminator becomes "\n", on writing "\n"     *)
(* becomes the platform's line separator.                                  *)
(***************************************************************************)
EXTENDS Integers, Sequences, FiniteSets

\* ---- bounds -------------------------------------------------------------
MaxLines == 4
MaxArgs == 2

\* ---- marker strings (lines 28-29) ---------------------------------------
codelabStartPattern == <<"P", ":">>
codelabEndPattern == <<"P", "E">>

\* The stderr text of line 24.
UsageMessage == "Error: Please specify the name of the file to process."

\* ---- the inputs enumerated ----------------------------------------------
\* Line texts: plain text, an indented start marker, an end marker, a line
\* with both markers, and a line with the common prefix but neither marker.
LineTexts ==
  { <<"x">>,
    <<"x", "P", ":", "x">>,
    <<"P", "E">>,
    <<"P", ":", "P", "E">>,
    <<"P", "x">> }

EolConventions == {"LF", "CRLF", "CR"}
LineSeps == {"LF", "CRLF"}

TextSeqs == UNION { [1..n -> LineTexts] : n \in 0..MaxLines }

\* A file whose lines all use the terminator conv; final says whether the
\* last line is terminated.
MkFile(texts, conv, final) ==
  [i \in 1..Len(texts) |->
     [text |-> texts[i],
      eol  |-> IF i = Len(texts) /\ ~final THEN "NONE" ELSE conv]]

Files ==
  { MkFile(t, c, f) : t \in TextSeqs, c \in EolConventions, f \in BOOLEAN }

\* sys.argv: the script name followed by 0..MaxArgs arguments.
Argvs ==
  { [i \in 1..(n + 1) |->
       IF i = 1 THEN "process-codelab-source-file.py"
       ELSE IF i = 2 THEN "a.kt" ELSE "extra"] : n \in 0..MaxArgs }

\* ---- pure functions -----------------------------------------------------
\* Python's `pat in s` on strings.
Contains(pat, s) ==
  \E i \in 1..(Len(s) - Len(pat) + 1) : SubSeq(s, i, i + Len(pat) - 1) = pat

HasStart(line) == Contains(codelabStartPattern, line.text)
HasEnd(line) == Contains(codelabEndPattern, line.text)

\* Text-mode reading: universal newlines, every terminator becomes "\n".
Decode(raw) == [text |-> raw.text, nl |-> raw.eol # "NONE"]
ReadLines(data) == [i \in 1..Len(data) |-> Decode(data[i])]

\* Text-mode writing: "\n" becomes the platform's line separator.
Encode(line, sep) == [text |-> line.text, eol |-> IF line.nl THEN sep ELSE "NONE"]

\* len(sys.argv) < 2
ArgsMissing_lt1(a) == Len(a) < 1
ArgsMissing_lt3(a) == Len(a) < 3
ArgsMissing(a) == Len(a) < 2

\* Whether the loop body appends the line: the else branch of `if discard`.
KeepLine_endKept(d, line) == ~d \/ HasEnd(line)
KeepLine_startDropped(d, line) == ~d /\ ~HasStart(line)
KeepLine(d, line) == ~d

\* lines.append(line)
AppendKept_twice(kept, line) == Append(Append(kept, line), line)
AppendKept(kept, line) == Append(kept, line)

\* The value of discard after the loop body.
NextDiscard_endWins(d, line) ==
  IF d THEN ~HasEnd(line) ELSE HasStart(line) /\ ~HasEnd(line)
NextDiscard_nested(d, line) ==
  IF d THEN ~(HasEnd(line) /\ ~HasStart(line)) ELSE HasStart(line)
NextDiscard(d, line) ==
  IF d THEN ~HasEnd(line) ELSE HasStart(line)

\* ---- state --------------------------------------------------------------
VARIABLES
  argv,       \* sys.argv
  linesep,    \* os.linesep of the platform
  disk,       \* the file named by the first argument: [exists, data]
  orig,       \* history: the data of the file when the program started
  pc,         \* position in the script
  file,       \* the variable `file`
  infile,     \* the lines the iteration over infile yields
  pos,        \* number of lines the loop has consumed
  discard,    \* the variable `discard`
  lines,      \* the variable `lines`
  keptIdx,    \* history: the positions of the lines appended to `lines`
  opens,      \* history: the open() calls made, <<path, mode>>
  exitStatus, \* process exit status, -1 while running
  stderr      \* what the process printed on stderr

vars == <<argv, linesep, disk, orig, pc, file, infile, pos, discard, lines,
          keptIdx, opens, exitStatus, stderr>>

Init ==
  /\ argv \in Argvs
  /\ linesep \in LineSeps
  /\ \/ \E f \in Files : disk = [exists |-> TRUE, data |-> f]
     \/ disk = [exists |-> FALSE, data |-> <<>>]
  /\ orig = disk.data
  /\ pc = "start"
  /\ file = ""
  /\ infile = <<>>
  /\ pos = 0
  /\ discard = FALSE
  /\ lines = <<>>
  /\ keptIdx = <<>>
  /\ opens = <<>>
  /\ exitStatus = -1
  /\ stderr = ""

\* Lines 23-24: sys.exit(message) prints the message and exits with 1.
UsageExit ==
  /\ pc = "start"
  /\ ArgsMissing(argv)
  /\ pc' = "exited"
  /\ exitStatus' = 1
  /\ stderr' = UsageMessage
  /\ UNCHANGED <<argv, linesep, disk, orig, file, infile, pos, discard, lines,
                 keptIdx, opens>>

\* Line 26: file = sys.argv[1]; an IndexError when there is no such element.
SetFile ==
  /\ pc = "start"
  /\ ~ArgsMissing(argv)
  /\ IF Len(argv) >= 2
       THEN /\ file' = argv[2]
            /\ pc' = "open_r"
            /\ UNCHANGED <<exitStatus, stderr>>
       ELSE /\ pc' = "failed"
            /\ exitStatus' = 1
            /\ stderr' = "IndexError"
            /\ UNCHANGED file
  /\ UNCHANGED <<argv, linesep, disk, orig, infile, pos, discard, lines,
                 keptIdx, opens>>

\* Lines 33-34, the file exists: open for reading, discard = False.
OpenRead ==
  /\ pc = "open_r"
  /\ disk.exists
  /\ opens' = Append(opens, <<file, "rt">>)
  /\ infile' = ReadLines(disk.data)
  /\ pos' = 0
  /\ discard' = FALSE
  /\ pc' = "scan"
  /\ UNCHANGED <<argv, linesep, disk, orig, file, lines, keptIdx,
                 exitStatus, stderr>>

\* Line 33, the file does not exist: the FileNotFoundError is not caught.
OpenReadFails ==
  /\ pc = "open_r"
  /\ ~disk.exists
  /\ opens' = Append(opens, <<file, "rt">>)
  /\ pc' = "failed"
  /\ exitStatus' = 1
  /\ stderr' = "FileNotFoundError"
  /\ UNCHANGED <<argv, linesep, disk, orig, file, infile, pos, discard, lines,
                 keptIdx>>

\* Lines 35-42: one iteration of the loop.
ScanLine ==
  /\ pc = "scan"
  /\ pos < Len(infile)
  /\ LET line == infile[pos + 1] IN
       /\ lines' = IF KeepLine(discard, line) THEN AppendKept(lines, line)
                   ELSE lines
       /\ discard' = NextDiscard(discard, line)
  /\ pos' = pos + 1
  /\ keptIdx' = IF Len(lines') > Len(lines) THEN Append(keptIdx, pos')
                ELSE keptIdx
  /\ UNCHANGED <<argv, linesep, disk, orig, pc, file, infile, opens,
                 exitStatus, stderr>>

\* Lines 35 and 44: the input is exhausted, the read handle is closed and
\* the file is opened for writing, which truncates it.
OpenWrite ==
  /\ pc = "scan"
  /\ pos = Len(infile)
  /\ opens' = Append(opens, <<file, "w">>)
  /\ disk' = [exists |-> TRUE, data |-> <<>>]
  /\ pc' = "write"
  /\ UNCHANGED <<argv, linesep, orig, file, infile, pos, discard, lines,
                 keptIdx, exitStatus, stderr>>

\* Lines 45-46: one iteration of the write loop.
WriteLine ==
  /\ pc = "write"
  /\ Len(disk.data) < Len(lines)
  /\ disk' = [disk EXCEPT
                !.data = Append(@, Encode(lines[Len(disk.data) + 1], linesep))]
  /\ UNCHANGED <<argv, linesep, orig, pc, file, infile, pos, discard, lines,
                 keptIdx, opens, exitStatus, stderr>>

\* End of the script: the write handle is closed and the process exits 0.
Finish ==
  /\ pc = "write"
  /\ Len(disk.data) = Len(lines)
  /\ pc' = "done"
  /\ exitStatus' = 0
  /\ UNCHANGED <<argv, linesep, disk, orig, file, infile, pos, discard, lines,
                 keptIdx, opens, stderr>>

Next ==
  \/ UsageExit
  \/ SetFile
  \/ OpenRead
  \/ OpenReadFails
  \/ ScanLine
  \/ OpenWrite
  \/ WriteLine
  \/ Finish

Spec == Init /\ [][Next]_vars

TypeOK ==
  /\ pc \in {"start", "exited", "failed", "open_r", "scan", "write", "done"}
  /\ discard \in BOOLEAN
  /\ pos \in 0..Len(infile)
  /\ exitStatus \in {-1, 0, 1}

\* ---- vocabulary of the properties ---------------------------------------
Min(S) == CHOOSE m \in S : \A n \in S : m <= n
Last(s) == s[Len(s)]
Range(s) == { s[i] : i \in DOMAIN s }
Texts(s) == [i \in DOMAIN s |-> s[i].text]

\* The elements of f at the positions in K, in order.
RECURSIVE Pick(_, _, _)
Pick(f, K, i) ==
  IF i > Len(f) THEN <<>>
  ELSE (IF i \in K THEN <<f[i]>> ELSE <<>>) \o Pick(f, K, i + 1)

\* The marked regions of f from position p on, found by pairing: the first
\* line containing the start marker is paired with the first later line
\* containing the end marker, and the pairing continues after that line.
\* A region <<s, 0>> has no end-marker line.
RECURSIVE Regions(_, _)
Regions(f, p) ==
  LET starts == { s \in p..Len(f) : HasStart(f[s]) } IN
    IF starts = {} THEN {}
    ELSE LET s == Min(starts)
             ends == { e \in (s + 1)..Len(f) : HasEnd(f[e]) }
         IN IF ends = {} THEN { <<s, 0>> }
            ELSE { <<s, Min(ends)>> } \cup Regions(f, Min(ends) + 1)

ClosedRegions(f) == { r \in Regions(f, 1) : r[2] # 0 }
OpenRegions(f) == { r \in Regions(f, 1) : r[2] = 0 }
Closers(f) == { r[2] : r \in ClosedRegions(f) }
Removed(f) == UNION { (r[1] + 1)..r[2] : r \in ClosedRegions(f) }

WellFormed(f) ==
  \A i \in DOMAIN f : HasStart(f[i]) => \E j \in (i + 1)..Len(f) : HasEnd(f[j])
NoMarkers(f) == \A i \in DOMAIN f : ~HasStart(f[i]) /\ ~HasEnd(f[i])
NativeEol(f) == \A i \in DOMAIN f : f[i].eol \in {linesep, "NONE"}
Consumed == pc = "scan" /\ pos' = pos + 1

\* ---- C1 -----------------------------------------------------------------
\* C1: for a well-formed file (every line containing the start marker has a
\* later line containing the end marker) the rewritten file consists of the
\* original lines, in order, except the lines after each region's
\* start-marker line up to and including the region's end-marker line; the
\* start-marker line stays.  Lines are compared by their text, and by text
\* and terminator when the file uses the platform's line separator.
C1_WellFormedOutput ==
  (pc = "done" /\ WellFormed(orig)) =>
     LET keep == (1..Len(orig)) \ Removed(orig) IN
       /\ Texts(disk.data) = Texts(Pick(orig, keep, 1))
       /\ NativeEol(orig) => disk.data = Pick(orig, keep, 1)
       /\ \A r \in ClosedRegions(orig) :
            \E k \in DOMAIN disk.data :
               /\ k = Cardinality({ i \in keep : i <= r[1] })
               /\ disk.data[k].text = orig[r[1]].text

C1_Witness ==
  /\ pc = "done"
  /\ WellFormed(orig)
  /\ \E r \in ClosedRegions(orig) : r[2] > r[1] + 1 /\ r[2] < Len(orig)

\* ---- C2 -----------------------------------------------------------------
\* C2 as stated: no line containing the end marker is ever in kept.
C2_NoEndMarkerInKept ==
  \A k \in DOMAIN lines : ~HasEnd(lines[k])

\* C2 amended: the end-marker line that closes a region is never appended to
\* kept, and so is not in the rewritten file.
C2_CloserNeverKept ==
  /\ \A k \in DOMAIN keptIdx : keptIdx[k] \notin Closers(infile)
  /\ pc = "done" =>
       Texts(disk.data) = Texts(Pick(orig, Range(keptIdx), 1))

C2_Witness ==
  /\ pc = "done"
  /\ Closers(infile) # {}
  /\ \E k \in DOMAIN lines : HasEnd(lines[k])

\* ---- C3 -----------------------------------------------------------------
\* C3: for a file in which no line contains a marker, the rewritten file
\* equals the input.
C3_NoMarkersNoOp ==
  (pc = "done" /\ NoMarkers(orig)) => disk.data = orig

\* ---- C4 -----------------------------------------------------------------
\* C4: when the last region has no end-marker line, the scan ends in
\* DISCARDING, the rewritten file ends with the start-marker line of that
\* region and has none of the lines after it, and the run ends with exit
\* status 0 and nothing on stderr.
C4_Truncation ==
  \A r \in OpenRegions(orig) :
     /\ (pc = "scan" /\ pos >= r[1]) => discard
     /\ pc \in {"write", "done"} =>
          /\ discard
          /\ keptIdx # <<>> /\ Last(keptIdx) = r[1]
     /\ pc = "done" =>
          /\ exitStatus = 0 /\ stderr = ""
          /\ Texts(disk.data) =
               Texts(Pick(orig, (1..r[1]) \ Removed(orig), 1))
          /\ Last(disk.data).text = orig[r[1]].text

C4_Witness ==
  /\ pc = "done"
  /\ \E r \in OpenRegions(orig) : r[1] > 1 /\ r[1] + 1 < Len(orig)

\* ---- C5 -----------------------------------------------------------------
\* C5: with no path argument the program ends with a non-zero status and
\* the usage message, and no file is ever opened or changed.
C5_UsageError ==
  Len(argv) < 2 =>
     /\ opens = <<>>
     /\ disk.data = orig
     /\ pc \in {"start", "exited"}
     /\ pc = "exited" => exitStatus = 1 /\ stderr = UsageMessage

C5_Witness == pc = "exited" /\ Len(argv) = 1 /\ disk.exists

\* ---- C6 -----------------------------------------------------------------
\* C6 as stated: a file is processed only when exactly one path argument is
\* supplied.
C6_ExactlyOneArgument ==
  opens # <<>> => Len(argv) = 2

\* C6 amended: a file is processed exactly when at least one argument is
\* supplied; the file is the one named by the first argument and further
\* arguments are ignored.
C6_AtLeastOneArgument ==
  /\ opens # <<>> =>
       /\ Len(argv) >= 2
       /\ \A k \in DOMAIN opens : opens[k][1] = argv[2]
  /\ (Len(argv) >= 2 /\ pc # "start") => (pc # "exited" /\ file = argv[2])
  /\ (Len(argv) >= 2 /\ disk.exists /\ pc = "done") =>
       opens = << <<argv[2], "rt">>, <<argv[2], "w">> >>

C6_Witness == pc = "done" /\ Len(argv) = 3 /\ Len(orig) > Len(disk.data)

\* ---- C7 -----------------------------------------------------------------
\* C7: at every step kept holds the lines read at a strictly increasing
\* sequence of positions among those consumed, each exactly as read, and
\* the rewritten file holds exactly those lines.
C7_KeptIsSubsequence ==
  /\ Len(keptIdx) = Len(lines)
  /\ \A k \in DOMAIN lines :
       /\ keptIdx[k] \in 1..pos
       /\ lines[k] = infile[keptIdx[k]]
  /\ \A j, k \in DOMAIN keptIdx : j < k => keptIdx[j] < keptIdx[k]
  /\ pc \in {"write", "done"} =>
       /\ pos = Len(infile)
       /\ \A k \in DOMAIN disk.data : disk.data[k].text = lines[k].text
  /\ pc = "done" => Len(disk.data) = Len(lines)

C7_Witness ==
  /\ pc = "done"
  /\ Len(lines) >= 2
  /\ Len(lines) < Len(infile)
  /\ keptIdx[2] > keptIdx[1] + 1

\* ---- C8 -----------------------------------------------------------------
\* C8: whenever the state is DISCARDING, kept is non-empty and its last
\* element is the start-marker line that opened the region (no line read
\* after it contains the end marker), and no step taken in DISCARDING
\* changes kept; DISCARDING is left only by consuming an end-marker line.
C8_StartMarkerKeptFirst ==
  /\ [](discard =>
          /\ lines # <<>>
          /\ HasStart(Last(lines))
          /\ Last(lines) = infile[Last(keptIdx)]
          /\ \A j \in (Last(keptIdx) + 1)..pos : ~HasEnd(infile[j]))
  /\ [][(discard => lines' = lines)
        /\ ((discard /\ ~discard') => (Consumed /\ HasEnd(infile[pos'])))
        /\ ((~discard /\ discard') =>
              (Consumed /\ lines' = Append(lines, infile[pos'])))]_vars

C8_Witness ==
  /\ pc = "scan"
  /\ discard
  /\ Len(lines) >= 2
  /\ pos > Last(keptIdx)

\* ---- C9 -----------------------------------------------------------------
\* C9 as stated: a line containing both markers is kept and the state after
\* it is DISCARDING.
C9_BothKept ==
  [][(Consumed /\ HasStart(infile[pos']) /\ HasEnd(infile[pos'])) =>
       (lines' = Append(lines, infile[pos']) /\ discard')]_vars

\* C9 amended: a line containing both markers that is read while the state
\* is KEEPING is kept and the state after it is DISCARDING.
C9_BothKeptWhenKeeping ==
  [][(Consumed /\ ~discard /\ HasStart(infile[pos']) /\ HasEnd(infile[pos']))
       => (lines' = Append(lines, infile[pos']) /\ discard')]_vars

C9_Witness ==
  /\ pc = "scan"
  /\ pos > 1
  /\ HasStart(infile[pos]) /\ HasEnd(infile[pos])
  /\ keptIdx # <<>> /\ Last(keptIdx) = pos
  /\ discard

\* ---- C10 ----------------------------------------------------------------
\* C10 as stated: a line containing the start marker that is read while
\* DISCARDING changes neither the state nor kept, and a line containing the
\* end marker that is read while DISCARDING leaves the state KEEPING.
C10_StartIgnoredWhileDiscarding ==
  [][/\ (Consumed /\ discard /\ HasStart(infile[pos'])) =>
          (discard' /\ lines' = lines)
     /\ (Consumed /\ discard /\ HasEnd(infile[pos'])) => ~discard']_vars

\* C10 amended: a line read while DISCARDING never changes kept, and the
\* state after it is KEEPING exactly when the line contains the end marker,
\* whether or not it contains the start marker and however many start
\* markers the region has had.
C10_NoNesting ==
  [][(Consumed /\ discard) =>
       /\ lines' = lines
       /\ discard' = ~HasEnd(infile[pos'])]_vars

C10_Witness ==
  /\ pc = "scan"
  /\ pos = 4
  /\ ~discard
  /\ keptIdx = <<1>>
  /\ HasStart(infile[2]) /\ ~HasEnd(infile[2])
  /\ HasStart(infile[3]) /\ ~HasEnd(infile[3])
====
